---- MODULE Spec2Model ----
(***************************************************************************)
(* Model of the Mizelda prototypes.                                        *)
(*                                                                         *)
(* Two independent programs live in the repository:                        *)
(*   - src/main.py: the overworld game (Game, World, Player, Enemy) whose   *)
(*     collision is against a list of wall rectangles;                     *)
(*   - src/player.py, src/world.py, src/enemy.py, src/settings.py: the     *)
(*     tile-grid variant, whose collision is against blocked tiles.        *)
(*                                                                         *)
(* Conventions.  Times are whole milliseconds (dt = clock.tick(FPS)/1000   *)
(* is a whole number of milliseconds divided by 1000).  Velocities are in  *)
(* thousandths of a pixel per second, so int(v * dt) is                    *)
(* Trunc(v * dt, 1000000).  A pygame.Rect is the record [x, y, w, h].      *)
(* Drawing-only state (animation frame counters of the walk cycle, the     *)
(* enemies' facing) is left out: no operation of the simulation reads it.  *)
(***************************************************************************)
EXTENDS Integers, Sequences, FiniteSets, TLC

VARIABLES
    prog,             \* which program this behaviour runs: "main", "tile", "move" or "query"
    pc,               \* position inside one iteration of Game.run's loop
    tick,             \* iterations of Game.run's loop completed
    input,            \* this frame's dt, held keys and SPACE event
    ei,               \* index of the next enemy in "for e in self.enemies"
    walls,            \* World.walls
    player,           \* Game.player
    enemies,          \* Game.enemies (with the removed ones kept, inlist = FALSE)
    bosses_defeated,  \* Game.bosses_defeated
    message,          \* Game.message
    message_t,        \* Game.message_t
    swing,            \* record of the current attack: hitbox and enemy hp at start_attack
    maps,             \* tile variant: World.maps[World.biome_name]
    tplayer,          \* tile variant: the Player of src/player.py
    query             \* tile variant: last tile query and its answers

vars == <<prog, pc, tick, input, ei, walls, player, enemies, bosses_defeated,
          message, message_t, swing, maps, tplayer, query>>

mainVars == <<pc, tick, input, ei, walls, player, enemies, bosses_defeated,
              message, message_t, swing>>

tileVars == <<maps, tplayer, query>>

(***************************************************************************)
(* Bounds of the model.                                                    *)
(***************************************************************************)
MaxTicks == 2

(***************************************************************************)
(* Constants of src/main.py.                                               *)
(***************************************************************************)
TILE == 48
WORLD_W == 80
WORLD_H == 60
FOREST == 0
DESERT == 1
ICE == 2
WATER == 3
DARK == 4
BIOME_ORDER == <<FOREST, DESERT, ICE, WATER, DARK>>
Biomes == {FOREST, DESERT, ICE, WATER, DARK}

PlayerSpeed == 220
PlayerMaxHp == 6
AttackCooldownMs == 250
AttackFrameMs == 60
AttackFrames == 4
InvulnMs == 800
HitFlashMs == 120
Knockback == 18
EnemySpeed == 120
BossSpeed == 140
EnemyMaxHp == 3
BossMaxHp == 14
ChaseRadius == 260
SpawnTile == 8

(***************************************************************************)
(* Arithmetic helpers.                                                     *)
(***************************************************************************)
Abs(a) == IF a < 0 THEN -a ELSE a

\* Python's int(): the quotient a / b (b > 0) truncated toward zero.
Trunc(a, b) == IF a >= 0 THEN a \div b ELSE -((-a) \div b)

clamp(v, lo, hi) == IF (IF hi < v THEN hi ELSE v) > lo THEN (IF hi < v THEN hi ELSE v) ELSE lo

RECURSIVE IsqrtIn(_, _, _)
IsqrtIn(n, lo, hi) ==
    IF lo >= hi THEN lo
    ELSE LET mid == (lo + hi + 1) \div 2
         IN IF mid * mid <= n THEN IsqrtIn(n, mid, hi) ELSE IsqrtIn(n, lo, mid - 1)

\* floor of the square root of n, 0 <= n < 2^31
Isqrt(n) == IsqrtIn(n, 0, 46340)

(***************************************************************************)
(* pygame.Rect                                                             *)
(***************************************************************************)
Rect(x, y, w, h) == [x |-> x, y |-> y, w |-> w, h |-> h]

centerx(r) == r.x + r.w \div 2
centery(r) == r.y + r.h \div 2

colliderect(a, b) ==
    /\ a.w # 0 /\ a.h # 0 /\ b.w # 0 /\ b.h # 0
    /\ a.x < b.x + b.w
    /\ b.x < a.x + a.w
    /\ a.y < b.y + b.h
    /\ b.y < a.y + a.h

collidepoint(r, px, py) ==
    /\ r.x <= px /\ px < r.x + r.w
    /\ r.y <= py /\ py < r.y + r.h

\* the rectangle of an entity of main.py: TILE x TILE at (x, y)
EntRect(e) == Rect(e.x, e.y, TILE, TILE)

OverlapsAny(r, ws) == \E i \in 1..Len(ws) : colliderect(r, ws[i])

(***************************************************************************)
(* main.py: biome_at, World                                                *)
(***************************************************************************)
biome_at(tx, ty) ==
    IF tx >= 60 THEN DARK
    ELSE IF tx < 30 THEN (IF ty < 30 THEN FOREST ELSE ICE)
    ELSE (IF ty < 30 THEN DESERT ELSE WATER)

portal_points ==
    [b \in Biomes |->
        CASE b = FOREST -> <<24, 12>>
          [] b = DESERT -> <<45, 12>>
          [] b = ICE    -> <<24, 46>>
          [] b = WATER  -> <<45, 46>>
          [] OTHER      -> <<70, 28>>]

\* World.portals[b]
Portal(b) == Rect(portal_points[b][1] * TILE, portal_points[b][2] * TILE, TILE, TILE)

\* the four walls around the world edges, in the order they are appended
EdgeWalls ==
    << Rect(-TILE, -TILE, WORLD_W * TILE + 2 * TILE, TILE),
       Rect(-TILE, WORLD_H * TILE, WORLD_W * TILE + 2 * TILE, TILE),
       Rect(-TILE, 0, TILE, WORLD_H * TILE),
       Rect(WORLD_W * TILE, 0, TILE, WORLD_H * TILE) >>

\* World.place_obstacle(img, tx, ty, solid=True): the collision box of a tree or rock
Obstacle(tx, ty) == Rect(tx * TILE + 10, ty * TILE + 12, TILE - 20, TILE - 18)

\* whether generate_obstacles_and_portals blocks the water tile (tx, ty)
IsWaterWall(tx, ty) ==
    /\ 32 <= ty /\ ty < 60 /\ 30 <= tx /\ tx < 60
    /\ biome_at(tx, ty) = WATER
    /\ Abs((tx - 30) - (ty - 32)) > 3

WaterWall(tx, ty) == Rect(tx * TILE, ty * TILE, TILE, TILE)

(***************************************************************************)
(* main.py: Entity, Player                                                 *)
(***************************************************************************)
Facings == {"up", "down", "left", "right"}

\* Player.__init__ (the fields the simulation reads)
NewPlayer(x, y) ==
    [x |-> x, y |-> y, vx |-> 0, vy |-> 0, facing |-> "down",
     attacking |-> FALSE, attack_t |-> 0, attack_frame_i |-> 0, attack_cooldown |-> 0,
     hp |-> PlayerMaxHp, invuln_t |-> 0]

\* start_attack without its test of attack_cooldown
start_attack_no_cooldown(p) ==
    IF p.attacking THEN p
    ELSE [p EXCEPT !.attacking = TRUE, !.attack_t = 0, !.attack_frame_i = 0,
                   !.attack_cooldown = AttackCooldownMs]

\* Player.start_attack
start_attack(p) ==
    IF p.attacking THEN p
    ELSE IF p.attack_cooldown > 0 THEN p
    ELSE [p EXCEPT !.attacking = TRUE, !.attack_t = 0, !.attack_frame_i = 0,
                   !.attack_cooldown = AttackCooldownMs]

\* Player.sword_hitbox
sword_hitbox(p) ==
    LET r == EntRect(p)
        reach == TILE \div 2
        thickness == TILE \div 2
    IN  CASE p.facing = "up" ->
               Rect(centerx(r) - thickness \div 2, r.y - reach, thickness, reach)
          [] p.facing = "down" ->
               Rect(centerx(r) - thickness \div 2, r.y + r.h, thickness, reach)
          [] p.facing = "left" ->
               Rect(r.x - reach, centery(r) - thickness \div 2, reach, thickness)
          [] OTHER ->
               Rect(r.x + r.w, centery(r) - thickness \div 2, reach, thickness)

\* "for wall in world.walls" of the X pass: the corrections in list order
RECURSIVE ResolveX(_, _, _, _)
ResolveX(r, vx, ws, i) ==
    IF i > Len(ws) THEN r
    ELSE IF colliderect(r, ws[i]) /\ vx > 0
    THEN ResolveX([r EXCEPT !.x = ws[i].x - r.w], vx, ws, i + 1)
    ELSE IF colliderect(r, ws[i]) /\ vx < 0
    THEN ResolveX([r EXCEPT !.x = ws[i].x + ws[i].w], vx, ws, i + 1)
    ELSE ResolveX(r, vx, ws, i + 1)

\* "for wall in world.walls" of the Y pass
RECURSIVE ResolveY(_, _, _, _)
ResolveY(r, vy, ws, i) ==
    IF i > Len(ws) THEN r
    ELSE IF colliderect(r, ws[i]) /\ vy > 0
    THEN ResolveY([r EXCEPT !.y = ws[i].y - r.h], vy, ws, i + 1)
    ELSE IF colliderect(r, ws[i]) /\ vy < 0
    THEN ResolveY([r EXCEPT !.y = ws[i].y + ws[i].h], vy, ws, i + 1)
    ELSE ResolveY(r, vy, ws, i + 1)

\* "keep inside world bounds"
ClampToWorld(r) ==
    [r EXCEPT !.x = clamp(r.x, 0, WORLD_W * TILE - TILE),
              !.y = clamp(r.y, 0, WORLD_H * TILE - TILE)]

\* a move_and_collide that stops instead of sliding: no Y move once X was blocked
move_and_collide_stop(p, dt, ws) ==
    LET r0 == EntRect(p)
        rx == [r0 EXCEPT !.x = @ + Trunc(p.vx * dt, 1000000)]
        r1 == ResolveX(rx, p.vx, ws, 1)
        r2 == IF OverlapsAny(rx, ws) THEN r1
              ELSE ResolveY([r1 EXCEPT !.y = @ + Trunc(p.vy * dt, 1000000)], p.vy, ws, 1)
        r3 == ClampToWorld(r2)
    IN [p EXCEPT !.x = r3.x, !.y = r3.y]

\* Player.move_and_collide
move_and_collide(p, dt, ws) ==
    LET r0 == EntRect(p)
        r1 == ResolveX([r0 EXCEPT !.x = @ + Trunc(p.vx * dt, 1000000)], p.vx, ws, 1)
        r2 == ResolveY([r1 EXCEPT !.y = @ + Trunc(p.vy * dt, 1000000)], p.vy, ws, 1)
        r3 == ClampToWorld(r2)
    IN [p EXCEPT !.x = r3.x, !.y = r3.y]

\* speed / hypot(1, 1), in thousandths of a pixel per second
DiagSpeed == Isqrt(PlayerSpeed * PlayerSpeed * 5000) * 10

\* Player.update
PlayerUpdate(p, dt, keys, ws) ==
    LET p1 == [p EXCEPT !.attack_cooldown = IF @ > 0 THEN @ - dt ELSE @,
                        !.invuln_t = IF @ > 0 THEN @ - dt ELSE @]
        move_x == IF p.attacking THEN 0
                  ELSE (IF keys.right THEN 1 ELSE 0) - (IF keys.left THEN 1 ELSE 0)
        move_y == IF p.attacking THEN 0
                  ELSE (IF keys.down THEN 1 ELSE 0) - (IF keys.up THEN 1 ELSE 0)
        facing == IF move_x # 0 \/ move_y # 0
                  THEN IF Abs(move_x) > Abs(move_y)
                       THEN (IF move_x > 0 THEN "right" ELSE "left")
                       ELSE (IF move_y > 0 THEN "down" ELSE "up")
                  ELSE p.facing
        unit == IF move_x # 0 /\ move_y # 0 THEN DiagSpeed ELSE PlayerSpeed * 1000
        p2 == [p1 EXCEPT !.facing = facing, !.vx = move_x * unit, !.vy = move_y * unit]
        p3 == move_and_collide(p2, dt, ws)
        t == p3.attack_t + dt
        frame == t \div AttackFrameMs
    IN  IF p3.attacking
        THEN IF frame >= AttackFrames
             THEN [p3 EXCEPT !.attacking = FALSE, !.attack_t = 0, !.attack_frame_i = 0]
             ELSE [p3 EXCEPT !.attack_t = t, !.attack_frame_i = frame]
        ELSE p3

(***************************************************************************)
(* main.py: Enemy                                                          *)
(***************************************************************************)
\* Enemy.__init__; wt is the draw of random.uniform(0.4, 1.2)
NewEnemy(x, y, biome_id, is_boss, wt) ==
    [x |-> x, y |-> y, vx |-> 0, vy |-> 0,
     hp |-> IF is_boss THEN BossMaxHp ELSE EnemyMaxHp,
     alive |-> TRUE, biom |-> biome_id, is_boss |-> is_boss,
     wander_t |-> wt, wdx |-> 0, wdy |-> 0, hit_flash_t |-> 0, inlist |-> TRUE]

\* take_damage without its "if self.hp <= 0: self.alive = False"
take_damage_only(e, dmg) == [e EXCEPT !.hp = @ - dmg]

\* Entity.take_damage
take_damage(e, dmg) ==
    LET h == e.hp - dmg
    IN [e EXCEPT !.hp = h, !.alive = IF h <= 0 THEN FALSE ELSE @]

\* Enemy.move_and_collide
enemy_move_and_collide(e, dt, ws) ==
    LET r0 == EntRect(e)
        r1 == ResolveX([r0 EXCEPT !.x = @ + Trunc(e.vx * dt, 1000000)], e.vx, ws, 1)
        r2 == ResolveY([r1 EXCEPT !.y = @ + Trunc(e.vy * dt, 1000000)], e.vy, ws, 1)
        r3 == ClampToWorld(r2)
    IN [e EXCEPT !.x = r3.x, !.y = r3.y]

\* one component of normalize(to_player) * speed, in thousandths of a pixel per
\* second; d is the component, d2 the squared length (0 < d2 < ChaseRadius^2)
ChaseVel(d, d2, speed) ==
    IF d2 = 0 THEN 0
    ELSE LET len100 == Isqrt(d2 * 10000)
             n == Abs(d) * speed * 1000
             q == (n \div len100) * 100 + ((n % len100) * 100) \div len100
         IN IF d < 0 THEN -q ELSE q

\* Enemy.update; roll is the outcome of the random draws made when wander_t runs out
EnemyUpdate(e, dt, p, ws, roll) ==
    LET e1 == [e EXCEPT !.hit_flash_t = IF @ > 0 THEN @ - dt ELSE @]
        tx == centerx(EntRect(p)) - centerx(EntRect(e))
        ty == centery(EntRect(p)) - centery(EntRect(e))
        near == Abs(tx) < ChaseRadius /\ Abs(ty) < ChaseRadius
                /\ tx * tx + ty * ty < ChaseRadius * ChaseRadius
        speed == IF e.is_boss THEN BossSpeed ELSE EnemySpeed
        wt == e.wander_t - dt
        e2 == IF near
              THEN [e1 EXCEPT !.vx = ChaseVel(tx, tx * tx + ty * ty, speed),
                              !.vy = ChaseVel(ty, tx * tx + ty * ty, speed)]
              ELSE LET w == IF wt <= 0
                            THEN [e1 EXCEPT !.wander_t = roll.t, !.wdx = roll.dx,
                                            !.wdy = roll.dy]
                            ELSE [e1 EXCEPT !.wander_t = wt]
                   IN [w EXCEPT !.vx = w.wdx * ((speed * 6) \div 10),
                                !.vy = w.wdy * ((speed * 6) \div 10)]
    IN enemy_move_and_collide(e2, dt, ws)

\* whether Enemy.update draws random numbers in this call
NeedsRoll(e, dt, p) ==
    LET tx == centerx(EntRect(p)) - centerx(EntRect(e))
        ty == centery(EntRect(p)) - centery(EntRect(e))
        near == Abs(tx) < ChaseRadius /\ Abs(ty) < ChaseRadius
                /\ tx * tx + ty * ty < ChaseRadius * ChaseRadius
    IN ~near /\ e.wander_t - dt <= 0

(***************************************************************************)
(* main.py: Game                                                           *)
(***************************************************************************)
BIOME_NAMES ==
    [b \in Biomes |->
        CASE b = FOREST -> "Forest of Moss"
          [] b = DESERT -> "Sunburn Dunes"
          [] b = ICE    -> "Frostveil Fields"
          [] b = WATER  -> "Mirror Marsh"
          [] OTHER      -> "Blackroot Keep"]

MsgIntro == "Find the Oasis Shards. Defeat each biome guardian to unlock the next portal."
MsgOuch == "Ouch! Watch your step."
MsgFainted == "You fainted... and woke up at the forest edge."
MsgWin == "You reached Blackroot Keep... The Oasis Shards glow. You win!"
MsgSealed == "The Keep is sealed by water magic. Defeat the Mirror Marsh guardian."
MsgLocked == "Portal locked: defeat this biome guardian first!"
MsgDefeated(b) == BIOME_NAMES[b] \o " guardian defeated! Portal unlocked."
MsgEntered(b) == "Entered: " \o BIOME_NAMES[b]

\* int(knock.x * 18) for the normalized vector: d is the component, d2 the squared
\* length of the vector before normalize_ip
KnockComp(d, d2) ==
    IF d2 = 0 THEN 0
    ELSE LET q == Isqrt(((Knockback * Abs(d)) * (Knockback * Abs(d))) \div d2)
         IN IF d < 0 THEN -q ELSE q

\* damage_player without its test of invuln_t
damage_player_always(g, dmg, kx, ky) ==
    LET p1 == [g.player EXCEPT !.hp = @ - dmg, !.invuln_t = InvulnMs,
                               !.x = @ + kx, !.y = @ + ky]
    IN IF p1.hp <= 0
       THEN [g EXCEPT !.player = [p1 EXCEPT !.hp = PlayerMaxHp,
                                            !.x = SpawnTile * TILE,
                                            !.y = SpawnTile * TILE],
                      !.message = MsgFainted, !.message_t = 3000]
       ELSE [g EXCEPT !.player = p1, !.message = MsgOuch, !.message_t = 1600]

\* Game.damage_player(dmg, knock_vec) on g = [player, message, message_t];
\* kx, ky are int(knock_vec.x * 18), int(knock_vec.y * 18)
damage_player(g, dmg, kx, ky) ==
    IF g.player.invuln_t > 0 THEN g
    ELSE LET p1 == [g.player EXCEPT !.hp = @ - dmg, !.invuln_t = InvulnMs,
                                    !.x = @ + kx, !.y = @ + ky]
         IN IF p1.hp <= 0
            THEN [g EXCEPT !.player = [p1 EXCEPT !.hp = PlayerMaxHp,
                                                 !.x = SpawnTile * TILE,
                                                 !.y = SpawnTile * TILE],
                           !.message = MsgFainted, !.message_t = 3000]
            ELSE [g EXCEPT !.player = p1, !.message = MsgOuch, !.message_t = 1600]

\* the loop of handle_combat without its "If boss dies, unlock its portal"
RECURSIVE CombatFromNoUnlock(_, _, _)
CombatFromNoUnlock(g, sword, i) ==
    IF i > Len(g.enemies) THEN g
    ELSE LET e == g.enemies[i]
         IN IF ~e.inlist \/ ~e.alive \/ ~colliderect(sword, EntRect(e))
            THEN CombatFromNoUnlock(g, sword, i + 1)
            ELSE CombatFromNoUnlock(
                     [g EXCEPT !.enemies[i] =
                                  [take_damage(e, 1) EXCEPT !.hit_flash_t = HitFlashMs]],
                     sword, i + 1)

\* the loop of Game.handle_combat from enemy i on, on
\* g = [enemies, bosses_defeated, message, message_t]
RECURSIVE CombatFrom(_, _, _)
CombatFrom(g, sword, i) ==
    IF i > Len(g.enemies) THEN g
    ELSE LET e == g.enemies[i]
         IN IF ~e.inlist \/ ~e.alive \/ ~colliderect(sword, EntRect(e))
            THEN CombatFrom(g, sword, i + 1)
            ELSE LET e2 == [take_damage(e, 1) EXCEPT !.hit_flash_t = HitFlashMs]
                     g2 == [g EXCEPT !.enemies[i] = e2]
                     g3 == IF ~e2.alive /\ e2.is_boss
                           THEN [g2 EXCEPT !.bosses_defeated[e2.biom] = TRUE,
                                           !.message = MsgDefeated(e2.biom),
                                           !.message_t = 3000]
                           ELSE g2
                 IN CombatFrom(g3, sword, i + 1)

\* Game.handle_combat
handle_combat(g, p) ==
    IF p.attacking THEN CombatFrom(g, sword_hitbox(p), 1) ELSE g

\* the loop of handle_enemy_collisions without its "if not e.alive: continue"
RECURSIVE CollideFromDead(_, _, _)
CollideFromDead(g, es, i) ==
    IF i > Len(es) THEN g
    ELSE LET e == es[i]
             kx == centerx(EntRect(g.player)) - centerx(EntRect(e))
             ky == centery(EntRect(g.player)) - centery(EntRect(e))
             d2 == kx * kx + ky * ky
         IN IF ~e.inlist \/ ~colliderect(EntRect(e), EntRect(g.player))
            THEN CollideFromDead(g, es, i + 1)
            ELSE CollideFromDead(damage_player(g, IF e.is_boss THEN 2 ELSE 1,
                                               KnockComp(kx, d2), KnockComp(ky, d2)),
                                 es, i + 1)

\* the loop of Game.handle_enemy_collisions from enemy i on, on
\* g = [player, message, message_t]
RECURSIVE CollideFrom(_, _, _)
CollideFrom(g, es, i) ==
    IF i > Len(es) THEN g
    ELSE LET e == es[i]
             kx == centerx(EntRect(g.player)) - centerx(EntRect(e))
             ky == centery(EntRect(g.player)) - centery(EntRect(e))
             d2 == kx * kx + ky * ky
         IN IF ~e.inlist \/ ~e.alive \/ ~colliderect(EntRect(e), EntRect(g.player))
            THEN CollideFrom(g, es, i + 1)
            ELSE CollideFrom(damage_player(g, IF e.is_boss THEN 2 ELSE 1,
                                           KnockComp(kx, d2), KnockComp(ky, d2)),
                             es, i + 1)

\* handle_enemy_collisions that lets dead enemies hurt
handle_enemy_collisions_dead(g, es) == CollideFromDead(g, es, 1)

\* Game.handle_enemy_collisions
handle_enemy_collisions(g, es) == CollideFrom(g, es, 1)

\* the loop of Game.handle_portals over world.portals from the i-th portal on,
\* on g = [player, message, message_t]
RECURSIVE PortalsFrom(_, _, _)
PortalsFrom(g, flags, i) ==
    IF i > Len(BIOME_ORDER) THEN g
    ELSE LET biome_id == BIOME_ORDER[i]
         IN IF ~colliderect(EntRect(g.player), Portal(biome_id))
            THEN PortalsFrom(g, flags, i + 1)
            ELSE IF biome_id = DARK
            THEN IF flags[WATER]
                 THEN [g EXCEPT !.message = MsgWin, !.message_t = 6000]
                 ELSE [g EXCEPT !.message = MsgSealed, !.message_t = 3000]
            ELSE IF ~flags[biome_id]
            THEN [g EXCEPT !.message = MsgLocked, !.message_t = 1400]
            ELSE IF i < Len(BIOME_ORDER)
            THEN LET dst == Portal(BIOME_ORDER[i + 1])
                 IN [g EXCEPT !.player.x = dst.x, !.player.y = dst.y,
                              !.message = MsgEntered(BIOME_ORDER[i + 1]),
                              !.message_t = 2200]
            ELSE g

\* handle_portals without its test of bosses_defeated: every portal open
handle_portals_open(g, flags) == PortalsFrom(g, [b \in Biomes |-> TRUE], 1)

\* a handle_portals that announces the next biome and leaves the player in place
handle_portals_stay(g, flags) ==
    [PortalsFrom(g, flags, 1) EXCEPT !.player = g.player]

\* Game.handle_portals
handle_portals(g, flags) == PortalsFrom(g, flags, 1)

\* a cleanup that keeps the live enemies only: "[e for e in self.enemies if e.alive]"
CleanupAlive(es) ==
    [i \in 1..Len(es) |-> [es[i] EXCEPT !.inlist = @ /\ es[i].alive]]

\* "Cleanup dead enemies (keep bosses dead)"
Cleanup(es) ==
    [i \in 1..Len(es) |-> [es[i] EXCEPT !.inlist = @ /\ (es[i].alive \/ es[i].is_boss)]]

(***************************************************************************)
(* Inputs of a frame of main.py.                                           *)
(***************************************************************************)
\* clock.tick(FPS) in milliseconds: a frame at 60 FPS, and two late frames (the
\* first frame's dt spans the loading of the assets; a stalled window gives more)
Dts == {16, 240, 500}

Keys(l, r, u, d) == [left |-> l, right |-> r, up |-> u, down |-> d]

\* pygame.key.get_pressed(): nothing, one direction, or a diagonal
KeySets ==
    { Keys(FALSE, FALSE, FALSE, FALSE), Keys(TRUE, FALSE, FALSE, FALSE),
      Keys(FALSE, TRUE, FALSE, FALSE), Keys(FALSE, FALSE, TRUE, FALSE),
      Keys(FALSE, FALSE, FALSE, TRUE), Keys(FALSE, TRUE, FALSE, TRUE) }

\* the draws of Enemy.update when wander_t runs out: random.uniform(0.6, 1.4) and
\* the direction (cos, sin) of a random angle, in thousandths
Rolls ==
    { [t |-> 600, dx |-> 1000, dy |-> 0], [t |-> 1400, dx |-> -707, dy |-> 707] }

NoRoll == [t |-> 0, dx |-> 0, dy |-> 0]

NoInput == [dt |-> 0, keys |-> Keys(FALSE, FALSE, FALSE, FALSE), space |-> FALSE]

(***************************************************************************)
(* States of the game the runs start from: the state Game.__init__ builds, *)
(* for several wall layouts and enemy placements, with the player and the  *)
(* enemies where play can bring them and enemies that have been hit.       *)
(***************************************************************************)
NoFlags == [b \in Biomes |-> FALSE]

Hurt(e, hp) == [e EXCEPT !.hp = hp]

\* the tiles of columns tx0..tx1 and rows ty0..ty1 in generation order (rows outside)
TilesIn(tx0, tx1, ty0, ty1) ==
    [k \in 1..((tx1 - tx0 + 1) * (ty1 - ty0 + 1)) |->
        <<tx0 + ((k - 1) % (tx1 - tx0 + 1)), ty0 + ((k - 1) \div (tx1 - tx0 + 1))>>]

IsWaterTile(t) == IsWaterWall(t[1], t[2])

\* the blocked water tiles of a window of the map, as generate_obstacles_and_portals
\* appends them
WaterWallsIn(tx0, tx1, ty0, ty1) ==
    LET ts == SelectSeq(TilesIn(tx0, tx1, ty0, ty1), IsWaterTile)
    IN [k \in 1..Len(ts) |-> WaterWall(ts[k][1], ts[k][2])]

Scene(ws, p, es) == [walls |-> ws, player |-> p, enemies |-> es]

Spawn == SpawnTile * TILE

Scenes ==
    { \* at the spawn point, an enemy just below, a tree on the left
      Scene(EdgeWalls \o <<Obstacle(7, 8)>>, NewPlayer(Spawn, Spawn),
            <<NewEnemy(Spawn, Spawn + TILE, FOREST, FALSE, 400)>>),
      \* the forest guardian, one hit from death, just below
      Scene(EdgeWalls \o <<Obstacle(7, 8)>>, NewPlayer(Spawn, Spawn),
            <<Hurt(NewEnemy(Spawn, Spawn + TILE, FOREST, TRUE, 400), 1)>>),
      \* an enemy one hit from death just below, another one far on the right
      Scene(EdgeWalls \o <<Obstacle(7, 8)>>, NewPlayer(Spawn, Spawn),
            <<Hurt(NewEnemy(Spawn, Spawn + TILE, FOREST, FALSE, 400), 1),
              NewEnemy(Spawn + 7 * TILE, Spawn, FOREST, FALSE, 1200)>>),
      \* the player against the tree of tile (7, 8), an enemy on the other side
      Scene(EdgeWalls \o <<Obstacle(7, 8)>>, NewPlayer(7 * TILE + 38, Spawn),
            <<NewEnemy(7 * TILE + 38 + TILE, Spawn, FOREST, FALSE, 400)>>),
      \* the player against the left edge of the world
      Scene(EdgeWalls, NewPlayer(0, Spawn),
            <<NewEnemy(TILE, Spawn, FOREST, FALSE, 400)>>),
      \* the player two pixels left of the forest portal, the guardian at its spot
      Scene(EdgeWalls, NewPlayer(24 * TILE - TILE - 2, 12 * TILE),
            <<NewEnemy(18 * TILE, 18 * TILE, FOREST, TRUE, 400)>>),
      \* the player on the bridge of the water biome, at the edge of the water
      Scene(EdgeWalls \o WaterWallsIn(41, 45, 39, 41), NewPlayer(41 * TILE, 40 * TILE),
            <<NewEnemy(35 * TILE, 37 * TILE, WATER, FALSE, 400)>>),
      \* a player with 2 hp left between a hurt enemy (below) and the forest
      \* guardian (on the right)
      Scene(EdgeWalls, Hurt(NewPlayer(10 * TILE, 10 * TILE), 2),
            <<Hurt(NewEnemy(10 * TILE, 11 * TILE, FOREST, FALSE, 400), 1),
              NewEnemy(11 * TILE, 10 * TILE, FOREST, TRUE, 400)>>),
      \* the player standing on the forest portal, the guardian, one hit from
      \* death, just below
      Scene(EdgeWalls, NewPlayer(24 * TILE - 20, 12 * TILE),
            <<Hurt(NewEnemy(24 * TILE - 20, 13 * TILE, FOREST, TRUE, 400), 1)>>) }

NoSwing == [box |-> Rect(0, 0, 0, 0), hp0 |-> <<>>]

TileIdle ==
    /\ maps = <<>>
    /\ tplayer = [x |-> 0, y |-> 0, facing |-> "down", hp |-> 5, rupees |-> 0,
                  sword_cd |-> 0, sword_active |-> 0, sword_rect |-> Rect(0, 0, 0, 0)]
    /\ query = [tx |-> 0, ty |-> 0, kind |-> 0, blocked |-> FALSE, asked |-> FALSE]

InitMain ==
    /\ prog = "main"
    /\ pc = "events"
    /\ tick = 0
    /\ input = NoInput
    /\ ei = 1
    /\ \E s \in Scenes :
          /\ walls = s.walls
          /\ player = s.player
          /\ enemies = s.enemies
    /\ bosses_defeated = NoFlags
    /\ message = MsgIntro
    /\ message_t = 6000
    /\ swing = NoSwing
    /\ TileIdle

\* boss_spots of spawn_enemies_and_bosses (tile coordinates)
boss_spots ==
    [b \in Biomes |->
        CASE b = FOREST -> <<18, 18>>
          [] b = DESERT -> <<52, 18>>
          [] b = ICE    -> <<18, 40>>
          [] b = WATER  -> <<52, 40>>
          [] OTHER      -> <<70, 30>>]

\* "Spawn one boss per biome": the guardians, in the order of boss_spots
SpawnBosses ==
    [i \in 1..Len(BIOME_ORDER) |->
        NewEnemy(boss_spots[BIOME_ORDER[i]][1] * TILE, boss_spots[BIOME_ORDER[i]][2] * TILE,
                 BIOME_ORDER[i], TRUE, 1200)]

\* Game.__init__: the edge walls, the water strips around the water guardian
\* and the water portal, the player at the spawn point and the five guardians
\* (trees, rocks and regular enemies left out)
InitSpawn ==
    /\ prog = "main"
    /\ pc = "events"
    /\ tick = 0
    /\ input = NoInput
    /\ ei = 1
    /\ walls = EdgeWalls \o WaterWallsIn(51, 53, 39, 41) \o WaterWallsIn(44, 47, 45, 47)
    /\ player = NewPlayer(Spawn, Spawn)
    /\ enemies = SpawnBosses
    /\ bosses_defeated = NoFlags
    /\ message = MsgIntro
    /\ message_t = 6000
    /\ swing = NoSwing
    /\ TileIdle

(***************************************************************************)
(* One iteration of the loop of Game.run, phase by phase.                  *)
(***************************************************************************)
\* clock.tick, the event loop (SPACE calls start_attack) and key.get_pressed
Events ==
    /\ prog = "main" /\ pc = "events" /\ tick < MaxTicks
    /\ \E dt \in Dts, keys \in KeySets, space \in BOOLEAN :
          /\ input' = [dt |-> dt, keys |-> keys, space |-> space]
          /\ player' = IF space THEN start_attack(player) ELSE player
    /\ swing' = IF player'.attacking /\ ~player.attacking
                THEN [box |-> sword_hitbox(player'),
                      hp0 |-> [i \in 1..Len(enemies) |-> enemies[i].hp]]
                ELSE swing
    /\ pc' = "player"
    /\ UNCHANGED <<prog, tick, ei, walls, enemies, bosses_defeated, message, message_t>>
    /\ UNCHANGED tileVars

\* self.player.update(dt, keys, self.world)
UpdatePlayer ==
    /\ prog = "main" /\ pc = "player"
    /\ player' = PlayerUpdate(player, input.dt, input.keys, walls)
    /\ pc' = IF Len(enemies) = 0 THEN "combat" ELSE "enemies"
    /\ ei' = 1
    /\ UNCHANGED <<prog, tick, input, walls, enemies, bosses_defeated, message,
                   message_t, swing>>
    /\ UNCHANGED tileVars

\* one turn of "for e in self.enemies: if e.alive: e.update(dt, self.player, self.world)"
UpdateEnemy ==
    /\ prog = "main" /\ pc = "enemies" /\ ei <= Len(enemies)
    /\ LET e == enemies[ei]
       IN IF e.inlist /\ e.alive
          THEN \E roll \in (IF NeedsRoll(e, input.dt, player) THEN Rolls ELSE {NoRoll}) :
                  enemies' = [enemies EXCEPT
                                 ![ei] = EnemyUpdate(e, input.dt, player, walls, roll)]
          ELSE enemies' = enemies
    /\ ei' = ei + 1
    /\ pc' = IF ei = Len(enemies) THEN "combat" ELSE "enemies"
    /\ UNCHANGED <<prog, tick, input, walls, player, bosses_defeated, message,
                   message_t, swing>>
    /\ UNCHANGED tileVars

\* self.handle_combat()
Combat ==
    /\ prog = "main" /\ pc = "combat"
    /\ LET g == handle_combat([enemies |-> enemies, bosses_defeated |-> bosses_defeated,
                               message |-> message, message_t |-> message_t], player)
       IN /\ enemies' = g.enemies
          /\ bosses_defeated' = g.bosses_defeated
          /\ message' = g.message
          /\ message_t' = g.message_t
    /\ pc' = "collide"
    /\ UNCHANGED <<prog, tick, input, ei, walls, player, swing>>
    /\ UNCHANGED tileVars

\* self.handle_enemy_collisions()
Collide ==
    /\ prog = "main" /\ pc = "collide"
    /\ LET g == handle_enemy_collisions([player |-> player, message |-> message,
                                         message_t |-> message_t], enemies)
       IN /\ player' = g.player
          /\ message' = g.message
          /\ message_t' = g.message_t
    /\ pc' = "portals"
    /\ UNCHANGED <<prog, tick, input, ei, walls, enemies, bosses_defeated, swing>>
    /\ UNCHANGED tileVars

\* self.handle_portals()
Portals ==
    /\ prog = "main" /\ pc = "portals"
    /\ LET g == handle_portals([player |-> player, message |-> message,
                                message_t |-> message_t], bosses_defeated)
       IN /\ player' = g.player
          /\ message' = g.message
          /\ message_t' = g.message_t
    /\ pc' = "cleanup"
    /\ UNCHANGED <<prog, tick, input, ei, walls, enemies, bosses_defeated, swing>>
    /\ UNCHANGED tileVars

\* the message timer and the cleanup of dead enemies: the end of the tick
EndTick ==
    /\ prog = "main" /\ pc = "cleanup"
    /\ message_t' = IF message_t > 0 THEN message_t - input.dt ELSE message_t
    /\ enemies' = Cleanup(enemies)
    /\ tick' = tick + 1
    /\ pc' = "events"
    /\ UNCHANGED <<prog, input, ei, walls, player, bosses_defeated, message, swing>>
    /\ UNCHANGED tileVars

NextMain ==
    \/ Events
    \/ UpdatePlayer
    \/ UpdateEnemy
    \/ Combat
    \/ Collide
    \/ Portals
    \/ EndTick

\* the game of src/main.py
Spec == InitMain /\ [][NextMain]_vars

\* the game from its spawn state
SpecSpawn == InitSpawn /\ [][NextMain]_vars

(***************************************************************************)
(* The tile-grid variant: src/settings.py, src/world.py, src/player.py.    *)
(* A map is a sequence of rows, grid[ty + 1][tx + 1]; CHUNK_H and CHUNK_W  *)
(* are its numbers of rows and columns.                                    *)
(***************************************************************************)
GRID_TILE == 32
PLAYER_SPEED == 3
PLAYER_SIZE == 24
SwordCooldown == 18
SwordFrames == 10
SwordSize == 20
IndexError == 0 - 1

CHUNK_H(grid) == Len(grid)
CHUNK_W(grid) == Len(grid[1])

\* Python's list[i]: negative indexes count from the end, others fail
PyIndex(list, i) ==
    IF 0 <= i /\ i < Len(list) THEN list[i + 1]
    ELSE IF -Len(list) <= i /\ i < 0 THEN list[Len(list) + i + 1]
    ELSE IndexError

\* self.maps[self.biome_name][ty][tx]
GridAt(grid, tx, ty) ==
    IF ty >= Len(grid) \/ ty < -Len(grid) THEN IndexError
    ELSE PyIndex(PyIndex(grid, ty), tx)

\* tile_at without the tests tx < 0 and ty < 0
tile_at_unsigned(grid, tx, ty) ==
    IF tx >= CHUNK_W(grid) \/ ty >= CHUNK_H(grid) THEN 1
    ELSE GridAt(grid, tx, ty)

\* World.tile_at
tile_at(grid, tx, ty) ==
    IF tx < 0 \/ ty < 0 \/ tx >= CHUNK_W(grid) \/ ty >= CHUNK_H(grid) THEN 1
    ELSE GridAt(grid, tx, ty)

\* World.tile_blocked
tile_blocked(grid, tx, ty) == tile_at(grid, tx, ty) \in {1, 2}

\* Player.__init__ of src/player.py
NewTilePlayer(x, y) ==
    [x |-> x, y |-> y, facing |-> "down", hp |-> 5, rupees |-> 0,
     sword_cd |-> 0, sword_active |-> 0, sword_rect |-> Rect(0, 0, 0, 0)]

TileRect(p) == Rect(p.x, p.y, PLAYER_SIZE, PLAYER_SIZE)

\* the body of the two loops of Player.resolve_collisions for the tile (tx, ty)
PushOut(r, grid, axis, tx, ty) ==
    LET tile_rect == Rect(tx * GRID_TILE, ty * GRID_TILE, GRID_TILE, GRID_TILE)
    IN IF tile_blocked(grid, tx, ty) /\ colliderect(r, tile_rect)
       THEN IF axis = "x"
            THEN IF centerx(r) > centerx(tile_rect)
                 THEN [r EXCEPT !.x = tile_rect.x + tile_rect.w]
                 ELSE [r EXCEPT !.x = tile_rect.x - r.w]
            ELSE IF centery(r) > centery(tile_rect)
                 THEN [r EXCEPT !.y = tile_rect.y + tile_rect.h]
                 ELSE [r EXCEPT !.y = tile_rect.y - r.h]
       ELSE r

\* the loops of Player.resolve_collisions from the k-th tile of the range on; the
\* range left..right, top..bottom is fixed before the loops start
RECURSIVE ResolveFrom(_, _, _, _, _)
ResolveFrom(r, grid, axis, range, k) ==
    LET cols == range.right - range.left + 1
        rows == range.bottom - range.top + 1
    IN IF k >= cols * rows THEN r
       ELSE ResolveFrom(PushOut(r, grid, axis, range.left + (k % cols),
                                range.top + (k \div cols)),
                        grid, axis, range, k + 1)

\* Player.resolve_collisions
resolve_collisions(r, grid, axis) ==
    ResolveFrom(r, grid, axis,
                [left |-> r.x \div GRID_TILE, right |-> (r.x + r.w) \div GRID_TILE,
                 top |-> r.y \div GRID_TILE, bottom |-> (r.y + r.h) \div GRID_TILE], 0)

\* Player.move_and_collide of src/player.py
tile_move_and_collide(p, dx, dy, grid) ==
    LET r0 == TileRect(p)
        r1 == IF dx # 0 THEN resolve_collisions([r0 EXCEPT !.x = @ + dx], grid, "x")
              ELSE r0
        r2 == IF dy # 0 THEN resolve_collisions([r1 EXCEPT !.y = @ + dy], grid, "y")
              ELSE r1
    IN [p EXCEPT !.x = r2.x, !.y = r2.y]

\* swing_sword without "if self.sword_cd > 0: return"
swing_sword_always(p) ==
    LET r == TileRect(p)
        box == CASE p.facing = "up" ->
                     Rect(centerx(r) - 10, r.y - 20, SwordSize, SwordSize)
                 [] p.facing = "down" ->
                     Rect(centerx(r) - 10, r.y + r.h, SwordSize, SwordSize)
                 [] p.facing = "left" ->
                     Rect(r.x - 20, centery(r) - 10, SwordSize, SwordSize)
                 [] OTHER ->
                     Rect(r.x + r.w, centery(r) - 10, SwordSize, SwordSize)
    IN [p EXCEPT !.sword_cd = SwordCooldown, !.sword_active = SwordFrames,
                 !.sword_rect = box]

\* Player.swing_sword
swing_sword(p) ==
    IF p.sword_cd > 0 THEN p
    ELSE LET r == TileRect(p)
             box == CASE p.facing = "up" ->
                          Rect(centerx(r) - 10, r.y - 20, SwordSize, SwordSize)
                      [] p.facing = "down" ->
                          Rect(centerx(r) - 10, r.y + r.h, SwordSize, SwordSize)
                      [] p.facing = "left" ->
                          Rect(r.x - 20, centery(r) - 10, SwordSize, SwordSize)
                      [] OTHER ->
                          Rect(r.x + r.w, centery(r) - 10, SwordSize, SwordSize)
         IN [p EXCEPT !.sword_cd = SwordCooldown, !.sword_active = SwordFrames,
                      !.sword_rect = box]

\* the facing Player.update leaves: the last of the four key tests that fires
TileFacing(p, keys) ==
    IF keys.right THEN "right"
    ELSE IF keys.left THEN "left"
    ELSE IF keys.down THEN "down"
    ELSE IF keys.up THEN "up"
    ELSE p.facing

\* the displacement (dx, dy) Player.update hands to move_and_collide, with its
\* "diagonal fix" int(dx * 0.7071), int(dy * 0.7071)
TileDisplacement(keys) ==
    LET dy0 == (IF keys.down THEN PLAYER_SPEED ELSE 0) - (IF keys.up THEN PLAYER_SPEED ELSE 0)
        dx0 == (IF keys.right THEN PLAYER_SPEED ELSE 0) - (IF keys.left THEN PLAYER_SPEED ELSE 0)
        diag == dx0 # 0 /\ dy0 # 0
    IN [dx |-> IF diag THEN Trunc(dx0 * 7071, 10000) ELSE dx0,
        dy |-> IF diag THEN Trunc(dy0 * 7071, 10000) ELSE dy0]

\* Player.update of src/player.py
TileUpdate(p, keys, grid) ==
    LET d == TileDisplacement(keys)
        p1 == tile_move_and_collide([p EXCEPT !.facing = TileFacing(p, keys)],
                                    d.dx, d.dy, grid)
    IN [p1 EXCEPT !.sword_cd = IF @ > 0 THEN @ - 1 ELSE @,
                  !.sword_active = IF @ > 0 THEN @ - 1 ELSE @,
                  !.sword_rect = IF p1.sword_active > 0 THEN @
                                 ELSE [@ EXCEPT !.w = 0, !.h = 0]]

(***************************************************************************)
(* Runs of the tile-grid variant.                                          *)
(***************************************************************************)
MaxMoves == 2
QueryMax == 7

\* the 5x5 map of walls around a floor
Border5 ==
    << <<1, 1, 1, 1, 1>>,
       <<1, 0, 0, 0, 1>>,
       <<1, 0, 0, 0, 1>>,
       <<1, 0, 0, 0, 1>>,
       <<1, 1, 1, 1, 1>> >>

\* a map of 6 columns and 5 rows with the four kinds of tile
Mixed6x5 ==
    << <<1, 1, 1, 1, 1, 1>>,
       <<1, 3, 0, 2, 0, 1>>,
       <<1, 0, 0, 0, 2, 1>>,
       <<1, 0, 2, 0, 3, 1>>,
       <<1, 1, 1, 1, 1, 1>> >>

\* a room of one floor tile
Border3 ==
    << <<1, 1, 1>>,
       <<1, 0, 1>>,
       <<1, 1, 1>> >>

\* the displacements handed to move_and_collide: a step, and more than a tile
Displacements == {-100, -3, 0, 3, 100}

\* the keys held in a frame of the tile variant
TileKeySets ==
    { Keys(FALSE, FALSE, FALSE, FALSE), Keys(TRUE, FALSE, FALSE, FALSE),
      Keys(FALSE, TRUE, FALSE, FALSE), Keys(FALSE, TRUE, FALSE, TRUE) }

\* the keys held in a frame of a walk: nothing, the four directions and the
\* four diagonals
WalkKeySets ==
    { Keys(l, r, u, d) : l \in {FALSE}, r \in BOOLEAN, u \in {FALSE}, d \in BOOLEAN }
    \cup { Keys(l, r, u, d) : l \in BOOLEAN, r \in {FALSE}, u \in BOOLEAN, d \in {FALSE} }
    \cup { Keys(TRUE, FALSE, FALSE, TRUE), Keys(FALSE, TRUE, TRUE, FALSE) }

\* what was last done to the player of the tile variant, and the keys held
TileInput(op, keys) == [op |-> op, keys |-> keys]

NoQuery == [tx |-> 0, ty |-> 0, kind |-> 0, blocked |-> FALSE, asked |-> FALSE]

MainIdle ==
    /\ pc = "idle"
    /\ tick = 0
    /\ ei = 1
    /\ walls = <<>>
    /\ player = NewPlayer(0, 0)
    /\ enemies = <<>>
    /\ bosses_defeated = NoFlags
    /\ message = ""
    /\ message_t = 0
    /\ swing = NoSwing

\* whether the rectangle overlaps a blocked tile (out-of-bounds tiles included)
InBlockedTile(r, grid) ==
    \E tx \in (r.x \div GRID_TILE)..((r.x + r.w) \div GRID_TILE),
       ty \in (r.y \div GRID_TILE)..((r.y + r.h) \div GRID_TILE) :
        /\ tile_blocked(grid, tx, ty)
        /\ colliderect(r, Rect(tx * GRID_TILE, ty * GRID_TILE, GRID_TILE, GRID_TILE))

\* move_and_collide called with arbitrary displacements, from inside tile (2, 2)
InitMove ==
    /\ prog = "move"
    /\ MainIdle
    /\ input = "start"
    /\ maps = Border5
    /\ \E x \in {64, 68, 72}, y \in {64, 68, 72} : tplayer = NewTilePlayer(x, y)
    /\ query = NoQuery

MoveAndCollide ==
    /\ prog = "move" /\ tick < MaxMoves
    /\ \E dx \in Displacements, dy \in Displacements :
          tplayer' = tile_move_and_collide(tplayer, dx, dy, maps)
    /\ tick' = tick + 1
    /\ input' = "move"
    /\ UNCHANGED <<prog, pc, ei, walls, player, enemies, bosses_defeated, message,
                   message_t, swing, maps, query>>

NextMove == MoveAndCollide

SpecMove == InitMove /\ [][NextMove]_vars

\* the player of src/player.py in a room, driven by update and swing_sword
InitTile ==
    /\ prog = "tile"
    /\ MainIdle
    /\ input = TileInput("start", Keys(FALSE, FALSE, FALSE, FALSE))
    /\ maps = Border3
    /\ tplayer = NewTilePlayer(36, 36)
    /\ query = NoQuery

\* player.update(keys, world)
UpdateTilePlayer ==
    /\ prog = "tile"
    /\ \E keys \in TileKeySets :
          /\ tplayer' = TileUpdate(tplayer, keys, maps)
          /\ input' = TileInput("update", keys)
    /\ UNCHANGED <<prog, pc, tick, ei, walls, player, enemies, bosses_defeated, message,
                   message_t, swing, maps, query>>

\* player.swing_sword()
SwingSword ==
    /\ prog = "tile"
    /\ tplayer' = swing_sword(tplayer)
    /\ input' = TileInput("swing", Keys(FALSE, FALSE, FALSE, FALSE))
    /\ UNCHANGED <<prog, pc, tick, ei, walls, player, enemies, bosses_defeated, message,
                   message_t, swing, maps, query>>

NextTile ==
    \/ UpdateTilePlayer
    \/ SwingSword

SpecTile == InitTile /\ [][NextTile]_vars

\* player.update(keys, world) while the player walks about, sword sheathed
WalkTilePlayer ==
    /\ prog = "tile"
    /\ \E keys \in WalkKeySets :
          /\ tplayer' = TileUpdate(tplayer, keys, maps)
          /\ input' = TileInput("update", keys)
    /\ UNCHANGED <<prog, pc, tick, ei, walls, player, enemies, bosses_defeated, message,
                   message_t, swing, maps, query>>

NextWalk == WalkTilePlayer

\* the player of src/player.py walking in a room
SpecWalk == InitTile /\ [][NextWalk]_vars

\* tile queries on a map
InitQuery ==
    /\ prog = "query"
    /\ MainIdle
    /\ input = "start"
    /\ maps \in {Border5, Mixed6x5}
    /\ tplayer = NewTilePlayer(0, 0)
    /\ query = NoQuery

\* world.tile_at(tx, ty) and world.tile_blocked(tx, ty)
TileQuery ==
    /\ prog = "query"
    /\ \E tx \in -QueryMax..QueryMax, ty \in -QueryMax..QueryMax :
          query' = [tx |-> tx, ty |-> ty, kind |-> tile_at(maps, tx, ty),
                    blocked |-> tile_blocked(maps, tx, ty), asked |-> TRUE]
    /\ UNCHANGED <<prog, pc, tick, input, ei, walls, player, enemies, bosses_defeated,
                   message, message_t, swing, maps, tplayer>>

NextQuery == TileQuery

SpecQuery == InitQuery /\ [][NextQuery]_vars

(***************************************************************************)
(* Map generation of src/world.py.  A cell of the noise is the class of    *)
(* r = rnd.random(): 0 for r < 0.10, 1 for 0.10 <= r < 0.20, 2 otherwise.  *)
(***************************************************************************)
ChunkW == 40
ChunkH == 40
SmoothPasses == 4
BIOMES == <<"grass", "ice", "water", "desert", "castle", "dark">>

\* the number of random generators the noise is drawn from
NoiseSeeds == 3

\* the class of the value rnd.random() returns for cell (x, y) of biome i,
\* for the generator k: generator 0 returns only values below 0.10, higher
\* generators return them less and less often
NoiseClass(k, i, x, y) ==
    LET v == ((x * (1 + i)) + (y * (1 + (k % 3))) + ((x \div 3) * (y \div 3) * k)) % (k + 1)
    IN  IF v > 2 THEN 2 ELSE v

\* lines 45-50: the tile of a noise value
NoiseTile(cls, biome) ==
    IF cls = 0 THEN (IF biome = "water" THEN 2 ELSE 1)
    ELSE IF cls = 1 THEN 1
    ELSE 0

\* lines 43-50: the cells x.. of row y after the noise
RECURSIVE NoiseRow(_, _, _, _)
NoiseRow(k, i, y, x) ==
    IF x >= ChunkW THEN <<>>
    ELSE <<NoiseTile(NoiseClass(k, i, x, y), BIOMES[i + 1])>> \o NoiseRow(k, i, y, x + 1)

\* lines 42-50: the rows y.. after the noise
RECURSIVE NoiseRows(_, _, _)
NoiseRows(k, i, y) ==
    IF y >= ChunkH THEN <<>>
    ELSE <<NoiseRow(k, i, y, 0)>> \o NoiseRows(k, i, y + 1)

\* lines 39-50: the grid after the noise
NoiseGrid(k, i) == NoiseRows(k, i, 0)

\* 1 if (nx, ny) is inside the map and of kind t ("counts[grid[ny][nx]] += 1")
Counted(grid, nx, ny, t) ==
    IF 0 <= ny /\ ny < ChunkH /\ 0 <= nx /\ nx < ChunkW
    THEN (IF grid[ny + 1][nx + 1] = t THEN 1 ELSE 0)
    ELSE 0

\* counts[t] for the cell (x, y): the cells of kind t among it and its neighbours
NeighbourCount(grid, x, y, t) ==
    Counted(grid, x - 1, y - 1, t) + Counted(grid, x, y - 1, t) + Counted(grid, x + 1, y - 1, t)
    + Counted(grid, x - 1, y, t) + Counted(grid, x, y, t) + Counted(grid, x + 1, y, t)
    + Counted(grid, x - 1, y + 1, t) + Counted(grid, x, y + 1, t) + Counted(grid, x + 1, y + 1, t)

\* max(counts, key=counts.get): the first of 0, 1, 2, 3 with the largest count
MaxKey(c0, c1, c2, c3) ==
    IF c0 >= c1 /\ c0 >= c2 /\ c0 >= c3 THEN 0
    ELSE IF c1 >= c2 /\ c1 >= c3 THEN 1
    ELSE IF c2 >= c3 THEN 2
    ELSE 3

\* best for the cell (x, y)
Best(grid, x, y) ==
    MaxKey(NeighbourCount(grid, x, y, 0), NeighbourCount(grid, x, y, 1),
           NeighbourCount(grid, x, y, 2), NeighbourCount(grid, x, y, 3))

\* the cells x.. of row y of the smoothed grid
RECURSIVE SmoothRow(_, _, _)
SmoothRow(grid, y, x) ==
    IF x >= ChunkW THEN <<>>
    ELSE <<Best(grid, x, y)>> \o SmoothRow(grid, y, x + 1)

\* the rows y.. of the smoothed grid
RECURSIVE SmoothRows(_, _)
SmoothRows(grid, y) ==
    IF y >= ChunkH THEN <<>>
    ELSE <<SmoothRow(grid, y, 0)>> \o SmoothRows(grid, y + 1)

\* one smoothing pass: new is computed from the grid before the pass
Smooth(grid) == SmoothRows(grid, 0)

\* lines 69-74: the borders become walls
Borders(grid) ==
    [y \in 1..ChunkH |->
        [x \in 1..ChunkW |->
            IF y = 1 \/ y = ChunkH \/ x = 1 \/ x = ChunkW THEN 1 ELSE grid[y][x]]]

\* lines 77-81: the 7x7 spawn area becomes floor
SpawnArea(grid) ==
    LET cx == ChunkW \div 2
        cy == ChunkH \div 2
    IN  [y \in 1..ChunkH |->
            [x \in 1..ChunkW |->
                IF /\ cy - 3 <= y - 1 /\ y - 1 < cy + 4
                   /\ cx - 3 <= x - 1 /\ x - 1 < cx + 4
                THEN 0 ELSE grid[y][x]]]

\* grid[ty][tx] = t
SetTile(grid, tx, ty, t) == [grid EXCEPT ![ty + 1][tx + 1] = t]

\* place_portals without "Make sure tiles near portals are walkable"
place_portals_only(grid) ==
    LET cx == ChunkW \div 2
        cy == ChunkH \div 2
    IN  SetTile(SetTile(SetTile(SetTile(grid, cx, 1, 3), cx, ChunkH - 2, 3),
                        1, cy, 3), ChunkW - 2, cy, 3)

\* World.place_portals
place_portals(grid) ==
    LET cx == ChunkW \div 2
        cy == ChunkH \div 2
        g4 == SetTile(SetTile(SetTile(SetTile(grid, cx, 1, 3), cx, ChunkH - 2, 3),
                              1, cy, 3), ChunkW - 2, cy, 3)
    IN  SetTile(SetTile(SetTile(SetTile(g4, cx, 2, 0), cx, ChunkH - 3, 0),
                        2, cy, 0), ChunkW - 3, cy, 0)

\* where generate_all_biomes is: the step last made, the biome being
\* generated, its generator, and the smoothing passes made
GenInput(op, biome, k, n) == [op |-> op, biome |-> biome, seed |-> k, passes |-> n]

\* World.__init__ before generate_all_biomes, for one of the generators
InitGen ==
    /\ prog = "gen"
    /\ pc = "noise"
    /\ tick = 0
    /\ \E k \in 0..(NoiseSeeds - 1) : input = GenInput("start", "", k, 0)
    /\ ei = 1
    /\ walls = <<>>
    /\ player = NewPlayer(0, 0)
    /\ enemies = <<>>
    /\ bosses_defeated = NoFlags
    /\ message = ""
    /\ message_t = 0
    /\ swing = NoSwing
    /\ maps = <<>>
    /\ tplayer = NewTilePlayer(0, 0)
    /\ query = NoQuery

\* generate_map is called for the next biome: lines 39-50, the noise
Noise ==
    /\ prog = "gen" /\ pc = "noise" /\ tick < Len(BIOMES)
    /\ maps' = NoiseGrid(input.seed, tick)
    /\ input' = GenInput("noise", BIOMES[tick + 1], input.seed, 0)
    /\ pc' = "smooth"
    /\ UNCHANGED <<prog, tick, ei, walls, player, enemies, bosses_defeated, message,
                   message_t, swing, tplayer, query>>

\* lines 53-66: one turn of "for _ in range(4)"
SmoothPass ==
    /\ prog = "gen" /\ pc = "smooth"
    /\ maps' = Smooth(maps)
    /\ input' = GenInput("smooth", input.biome, input.seed, input.passes + 1)
    /\ pc' = IF input.passes + 1 >= SmoothPasses THEN "borders" ELSE "smooth"
    /\ UNCHANGED <<prog, tick, ei, walls, player, enemies, bosses_defeated, message,
                   message_t, swing, tplayer, query>>

\* lines 69-74
MakeBorders ==
    /\ prog = "gen" /\ pc = "borders"
    /\ maps' = Borders(maps)
    /\ input' = GenInput("borders", input.biome, input.seed, input.passes)
    /\ pc' = "spawn"
    /\ UNCHANGED <<prog, tick, ei, walls, player, enemies, bosses_defeated, message,
                   message_t, swing, tplayer, query>>

\* lines 77-81
SafeSpawn ==
    /\ prog = "gen" /\ pc = "spawn"
    /\ maps' = SpawnArea(maps)
    /\ input' = GenInput("spawn", input.biome, input.seed, input.passes)
    /\ pc' = "portals"
    /\ UNCHANGED <<prog, tick, ei, walls, player, enemies, bosses_defeated, message,
                   message_t, swing, tplayer, query>>

\* lines 84-86: place_portals, and generate_map returns the grid
PlacePortals ==
    /\ prog = "gen" /\ pc = "portals"
    /\ maps' = place_portals(maps)
    /\ input' = GenInput("generate", input.biome, input.seed, input.passes)
    /\ pc' = "noise"
    /\ tick' = tick + 1
    /\ UNCHANGED <<prog, ei, walls, player, enemies, bosses_defeated, message,
                   message_t, swing, tplayer, query>>

NextGen ==
    \/ Noise
    \/ SmoothPass
    \/ MakeBorders
    \/ SafeSpawn
    \/ PlacePortals

\* generate_all_biomes: generate_map for each biome in turn
SpecGen == InitGen /\ [][NextGen]_vars

(***************************************************************************)
(* The wandering enemy of src/enemy.py.  The components of dir are in      *)
(* thousandths.                                                            *)
(***************************************************************************)
TileEnemySize == 22
TileEnemySpeed == 2

\* the number of update calls followed
MaxUpdates == 2

\* pygame.Vector2(a, b).normalize() when its length is not 0
Normalize(a, b) ==
    LET len == Isqrt((a * a) + (b * b))
    IN  IF len > 0 THEN [x |-> Trunc(a * 1000, len), y |-> Trunc(b * 1000, len)]
        ELSE [x |-> a, y |-> b]

\* Enemy.__init__, with the values random returned
NewTileEnemy(x, y, t, a, b) ==
    [x |-> x, y |-> y, speed |-> TileEnemySpeed, hp |-> 2, hit_cd |-> 0,
     change_timer |-> t, dir |-> Normalize(a, b)]

TileEnemyRect(e) == Rect(e.x, e.y, TileEnemySize, TileEnemySize)

\* Enemy.touch_block
touch_block(e, grid) ==
    LET r == TileEnemyRect(e)
    IN  \E ty \in (r.y \div GRID_TILE)..((r.y + r.h) \div GRID_TILE),
           tx \in (r.x \div GRID_TILE)..((r.x + r.w) \div GRID_TILE) :
            /\ tile_blocked(grid, tx, ty)
            /\ colliderect(r, Rect(tx * GRID_TILE, ty * GRID_TILE, GRID_TILE, GRID_TILE))

\* lines 34-39: the timer and, when it ends, the values random returns
TurnEnemy(e, roll) ==
    IF e.change_timer - 1 <= 0
    THEN [e EXCEPT !.change_timer = roll.t, !.dir = Normalize(roll.a, roll.b)]
    ELSE [e EXCEPT !.change_timer = @ - 1]

\* int(self.dir.x * self.speed)
EnemyStep(d, speed) == Trunc(d * speed, 1000)

\* the move along x that is never undone
EnemyMoveXThrough(e, grid) ==
    [e EXCEPT !.x = @ + EnemyStep(e.dir.x, e.speed)]

\* lines 44-47: the move along x
EnemyMoveX(e, grid) ==
    LET dx == EnemyStep(e.dir.x, e.speed)
        e1 == [e EXCEPT !.x = @ + dx]
    IN  IF touch_block(e1, grid) THEN [e EXCEPT !.dir.x = -@] ELSE e1

\* lines 49-52: the move along y
EnemyMoveY(e, grid) ==
    LET dy == EnemyStep(e.dir.y, e.speed)
        e1 == [e EXCEPT !.y = @ + dy]
    IN  IF touch_block(e1, grid) THEN [e EXCEPT !.dir.y = -@] ELSE e1

\* Enemy.update
TileEnemyUpdate(e, roll, grid) ==
    LET e2 == EnemyMoveY(EnemyMoveX(TurnEnemy(e, roll), grid), grid)
    IN  [e2 EXCEPT !.hit_cd = IF @ > 0 THEN @ - 1 ELSE @]

\* the values of random.uniform(-1, 1), in thousandths
Uniforms == {-1000, -500, 0, 500, 1000}

\* the values of random.randint(25, 80)
Randints == {25, 80}

\* the values random returns when the timer ends
TurnRolls == { [t |-> t, a |-> a, b |-> b] : t \in Randints, a \in Uniforms, b \in Uniforms }

NoTurn == [t |-> 0, a |-> 0, b |-> 0]

\* a map of 6 columns and 6 rows with a wall and a pond inside
Pond6 ==
    << <<1, 1, 1, 1, 1, 1>>,
       <<1, 0, 0, 0, 3, 1>>,
       <<1, 0, 1, 0, 0, 1>>,
       <<1, 0, 0, 2, 0, 1>>,
       <<1, 3, 0, 0, 0, 1>>,
       <<1, 1, 1, 1, 1, 1>> >>

\* what was last done to the enemy, and the direction it moved with
EnemyInput(op, dir) == [op |-> op, dir |-> dir]

\* an enemy somewhere on the floor of the map, its timer running or ending
InitEnemy ==
    /\ prog = "enemy"
    /\ pc = "idle"
    /\ tick = 0
    /\ ei = 1
    /\ walls = <<>>
    /\ player = NewPlayer(0, 0)
    /\ bosses_defeated = NoFlags
    /\ message = ""
    /\ message_t = 0
    /\ swing = NoSwing
    /\ maps = Pond6
    /\ tplayer = NewTilePlayer(0, 0)
    /\ query = NoQuery
    /\ \E x \in {32, 41, 42, 74, 96, 106, 138}, y \in {32, 42, 64, 74, 106, 138},
          t \in {1, 40}, a \in Uniforms, b \in Uniforms :
          /\ ~touch_block(NewTileEnemy(x, y, t, a, b), maps)
          /\ enemies = <<NewTileEnemy(x, y, t, a, b)>>
          /\ input = EnemyInput("start", Normalize(a, b))

\* enemy.update(world)
UpdateTileEnemy ==
    /\ prog = "enemy" /\ tick < MaxUpdates
    /\ \E roll \in TurnRolls \cup {NoTurn} :
          /\ (roll = NoTurn) <=> (enemies[1].change_timer - 1 > 0)
          /\ enemies' = <<TileEnemyUpdate(enemies[1], roll, maps)>>
          /\ input' = EnemyInput("update", TurnEnemy(enemies[1], roll).dir)
    /\ tick' = tick + 1
    /\ UNCHANGED <<prog, pc, ei, walls, player, bosses_defeated, message,
                   message_t, swing, maps, tplayer, query>>

NextEnemy == UpdateTileEnemy

SpecEnemy == InitEnemy /\ [][NextEnemy]_vars

\* both players: the game of src/main.py or the player of src/player.py
InitAll == InitMain \/ InitTile

NextAll == NextMain \/ NextTile

SpecAll == InitAll /\ [][NextAll]_vars

\* the game of src/main.py, or the player of src/player.py walking
NextBoth == NextMain \/ NextWalk

SpecBoth == InitAll /\ [][NextBoth]_vars

(***************************************************************************)
(* Properties.                                                             *)
(***************************************************************************)
Free(p) == ~OverlapsAny(EntRect(p), walls)

InWorld(e) ==
    /\ 0 <= e.x /\ e.x <= WORLD_W * TILE - TILE
    /\ 0 <= e.y /\ e.y <= WORLD_H * TILE - TILE

\* C1: no tunneling in the tile-grid variant: after every call of
\* Player.move_and_collide of src/player.py, with displacements of any size, from
\* a rectangle that overlapped no blocked tile, the rectangle overlaps no tile for
\* which tile_blocked is true, out-of-bounds tiles included.
NoTunneling == prog = "move" => ~InBlockedTile(TileRect(tplayer), maps)

\* C2: in src/main.py, Player.move_and_collide called on a rectangle that
\* overlaps no wall leaves a rectangle that overlaps none of world.walls, for
\* any layout and velocity.
ClearOfAllWalls ==
    [][pc = "player" /\ Free(player) => Free(player')]_vars

\* C3: the knockback of Game.damage_player is resolved against the walls: a
\* player who overlapped no wall overlaps none right after the knockback, and
\* none at the end of that tick.
KnockbackResolved ==
    [][pc = "collide" /\ Free(player) => Free(player')]_vars

\* C4: hitbox one-shot: from a successful start_attack until attacking is False
\* again, handle_combat lowers the hp of any enemy by at most 1.
HitboxOneShot ==
    player.attacking =>
        \A i \in 1..Len(enemies) : swing.hp0[i] - enemies[i].hp <= 1

\* C5: cooldown gating: start_attack with attack_cooldown > 0 (src/main.py) and
\* swing_sword with sword_cd > 0 (src/player.py) leave every field of the player
\* unchanged, and no new hitbox appears.
CooldownGating ==
    [][ /\ (prog = "main" /\ pc = "events" /\ input'.space
              /\ player.attack_cooldown > 0)
            => (player' = player /\ swing' = swing)
        /\ (prog = "tile" /\ input'.op = "swing" /\ tplayer.sword_cd > 0)
            => tplayer' = tplayer ]_vars

\* a SPACE press arrived while only the cooldown was holding the attack back
CooldownGatingWitness ==
    /\ prog = "main" /\ pc = "player" /\ input.space
    /\ ~player.attacking /\ player.attack_cooldown > 0

\* C6: death is terminal: an enemy that is not alive is never updated, moved or
\* hit again and never comes back to life (no step changes any field of it
\* except its membership of the list); handle_combat with no live enemy under
\* the sword changes no flag and no message; handle_enemy_collisions with no
\* live enemy touching the player leaves the player alone.
DeathIsTerminal ==
    [][ /\ \A i \in 1..Len(enemies) :
              ~enemies[i].alive =>
                  [enemies'[i] EXCEPT !.inlist = enemies[i].inlist] = enemies[i]
        /\ (pc = "combat"
              /\ \A i \in 1..Len(enemies) :
                    enemies[i].alive =>
                        ~colliderect(sword_hitbox(player), EntRect(enemies[i])))
            => (bosses_defeated' = bosses_defeated /\ message' = message)
        /\ (pc = "collide"
              /\ \A i \in 1..Len(enemies) :
                    enemies[i].alive /\ enemies[i].inlist =>
                        ~colliderect(EntRect(enemies[i]), EntRect(player)))
            => (player' = player /\ message' = message) ]_vars

\* in a later tick, handle_enemy_collisions has just run with a dead guardian on
\* top of a player who was not invulnerable, and the player is unhurt
DeathIsTerminalWitness ==
    /\ prog = "main" /\ pc = "portals" /\ tick >= 1
    /\ player.invuln_t <= 0 /\ player.hp = PlayerMaxHp
    /\ \E i \in 1..Len(enemies) :
          /\ ~enemies[i].alive /\ enemies[i].inlist /\ enemies[i].hp <= 0
          /\ colliderect(EntRect(enemies[i]), EntRect(player))

\* the portal the player stands on is the portal of a biome other than DARK
\* whose guardian is not defeated
OnLockedPortal ==
    \E b \in Biomes \ {DARK} :
        colliderect(EntRect(player), Portal(b)) /\ ~bosses_defeated[b]

\* C7: gated transition denied: handle_portals with the player on the portal of
\* a biome other than DARK whose boss is not defeated leaves the position and the
\* boss flags unchanged and makes the denial message the current message.
GatedPortalDenied ==
    [][pc = "portals" /\ OnLockedPortal
          => /\ player' = player
             /\ bosses_defeated' = bosses_defeated
             /\ message' = "Portal locked: defeat this biome guardian first!"
             /\ message_t' = 1400 ]_vars

\* handle_portals has just refused the player standing on a locked portal
GatedPortalDeniedWitness ==
    /\ prog = "main" /\ pc = "cleanup" /\ OnLockedPortal
    /\ message = MsgLocked /\ message_t = 1400

\* C8: tile queries are total: tile_at returns a tile kind for every (tx, ty),
\* 1 outside the grid and the tile of the map inside it; tile_blocked is true
\* exactly for out-of-bounds, wall (1) and water (2), false for floor (0) and
\* portal (3).
TileQueriesTotal ==
    query.asked =>
        LET oob == \/ query.tx < 0 \/ query.ty < 0
                   \/ query.tx >= CHUNK_W(maps) \/ query.ty >= CHUNK_H(maps)
        IN /\ query.kind \in 0..3
           /\ oob => query.kind = 1
           /\ ~oob => query.kind = maps[query.ty + 1][query.tx + 1]
           /\ query.blocked <=> (oob \/ query.kind \in {1, 2})
           /\ (~oob /\ query.kind \in {0, 3}) => ~query.blocked

\* a query at a negative index that Python's list indexing would have answered
\* with a walkable tile of the other side of the map
TileQueriesTotalWitness ==
    /\ query.asked /\ (query.tx < 0 \/ query.ty < 0)
    /\ query.kind = 1 /\ query.blocked
    /\ GridAt(maps, query.tx, query.ty) \in {0, 3}

\* C9: hard outer boundary: at the end of every tick of Game.run the player's
\* rectangle and every live enemy's rectangle lie inside the world pixel bounds.
HardOuterBoundary ==
    (prog = "main" /\ pc = "events") =>
        /\ InWorld(player)
        /\ \A i \in 1..Len(enemies) :
              enemies[i].alive /\ enemies[i].inlist => InWorld(enemies[i])

\* C10: hitbox fixed at spawn: while an attack is active, the rectangle that
\* handle_combat tests equals the rectangle computed from the player's position
\* and facing when start_attack succeeded.
HitboxFixedAtSpawn ==
    (prog = "main" /\ pc = "combat" /\ player.attacking) =>
        sword_hitbox(player) = swing.box

\* C11: an expired hitbox is inert: in src/player.py, in every state reached
\* after Player.update returns, sword_active = 0 implies that sword_rect has
\* size (0, 0).
ExpiredHitboxInert ==
    (prog = "tile" /\ input.op = "update" /\ tplayer.sword_active = 0) =>
        (tplayer.sword_rect.w = 0 /\ tplayer.sword_rect.h = 0)

\* C12: timers stop at zero: in src/main.py the player's attack_cooldown and
\* invuln_t are never negative in any reachable state.
TimersStopAtZero ==
    prog = "main" => (player.attack_cooldown >= 0 /\ player.invuln_t >= 0)

\* the state [player, message, message_t] that damage_player leaves when enemy i
\* alone touches the player
HitBy(i) ==
    LET e == enemies[i]
        kx == centerx(EntRect(player)) - centerx(EntRect(e))
        ky == centery(EntRect(player)) - centery(EntRect(e))
        d2 == kx * kx + ky * ky
    IN damage_player([player |-> player, message |-> message, message_t |-> message_t],
                     IF e.is_boss THEN 2 ELSE 1, KnockComp(kx, d2), KnockComp(ky, d2))

Touching(i) ==
    /\ enemies[i].alive /\ enemies[i].inlist
    /\ colliderect(EntRect(enemies[i]), EntRect(player))

\* C13: player invulnerability window: while invuln_t > 0 handle_enemy_collisions
\* changes neither hp, position nor message, whichever enemies touch the player;
\* within one tick the player is damaged by at most one enemy: what the step
\* leaves is what one call of damage_player for one touching enemy leaves.
InvulnerabilityWindow ==
    [][pc = "collide" =>
          /\ player.invuln_t > 0 =>
                (player' = player /\ message' = message /\ message_t' = message_t)
          /\ \/ (player' = player /\ message' = message /\ message_t' = message_t)
             \/ \E i \in 1..Len(enemies) :
                   /\ Touching(i)
                   /\ [player |-> player', message |-> message',
                       message_t |-> message_t'] = HitBy(i) ]_vars

\* handle_enemy_collisions has just run: the first enemy has hurt the player and
\* the last one, alive and still on top of the player, has not
InvulnerabilityWindowWitness ==
    /\ prog = "main" /\ pc = "portals" /\ Len(enemies) = 2
    /\ player.invuln_t = InvulnMs /\ player.hp = 1 /\ message = MsgOuch
    /\ enemies[1].alive /\ ~enemies[1].is_boss
    /\ Touching(2) /\ enemies[2].is_boss

\* a horizontal and a vertical direction key held together
Diagonal(keys) == keys.left # keys.right /\ keys.up # keys.down

HorizontalFacing(keys) == IF keys.right THEN "right" ELSE "left"

\* C14: facing tie-break: with a horizontal and a vertical direction key held in
\* the same tick and the player not attacking, Player.update sets facing to the
\* horizontal direction, in src/main.py and in src/player.py.
FacingTieBreak ==
    [][ /\ (prog = "main" /\ pc = "player" /\ ~player.attacking
              /\ Diagonal(input.keys))
            => player'.facing = HorizontalFacing(input.keys)
        /\ (prog = "tile" /\ input'.op = "update" /\ Diagonal(input'.keys))
            => tplayer'.facing = HorizontalFacing(input'.keys) ]_vars

\* C15: slide, not stop: when the player moves diagonally, the X move is blocked
\* by a wall and the Y move (from the resolved X position) is unobstructed, the
\* same call of move_and_collide applies the full Y displacement, in src/main.py
\* and in src/player.py.
SlideNotStop ==
    [][ /\ (prog = "main" /\ pc = "player" /\ ~player.attacking
              /\ Diagonal(input.keys))
            => LET dx == Trunc(player'.vx * input.dt, 1000000)
                   dy == Trunc(player'.vy * input.dt, 1000000)
                   rx == [EntRect(player) EXCEPT !.x = @ + dx]
                   r1 == ResolveX(rx, player'.vx, walls, 1)
                   ry == [r1 EXCEPT !.y = @ + dy]
               IN (OverlapsAny(rx, walls) /\ ~OverlapsAny(ry, walls))
                     => player'.y = player.y + dy
        /\ (prog = "tile" /\ input'.op = "update" /\ Diagonal(input'.keys))
            => LET d == TileDisplacement(input'.keys)
                   rx == [TileRect(tplayer) EXCEPT !.x = @ + d.dx]
                   r1 == resolve_collisions(rx, maps, "x")
                   ry == [r1 EXCEPT !.y = @ + d.dy]
               IN (InBlockedTile(rx, maps) /\ ~InBlockedTile(ry, maps))
                     => tplayer'.y = tplayer.y + d.dy ]_vars

\* first tick on the bridge of the water biome with RIGHT and DOWN held: the
\* water tile on the right has blocked the X move (x is still 41 * TILE), and
\* the player has moved down by the full Y displacement
SlideNotStopWitness ==
    /\ prog = "main" /\ pc = "enemies" /\ tick = 0 /\ ei = 1
    /\ input.keys.right /\ input.keys.down
    /\ LET dx == Trunc(player.vx * input.dt, 1000000)
           dy == Trunc(player.vy * input.dt, 1000000)
       IN /\ dx > 0 /\ dy > 0
          /\ OverlapsAny(Rect(41 * TILE + dx, 40 * TILE, TILE, TILE), walls)
          /\ player.x = 41 * TILE /\ player.y = 40 * TILE + dy

\* C16: health invariant in src/main.py: the hp of the player and of every enemy
\* is >= 0 in every reachable state, and an enemy is alive exactly when its hp
\* is greater than 0.
HealthInvariant ==
    prog = "main" =>
        /\ player.hp >= 0
        /\ \A i \in 1..Len(enemies) :
              /\ enemies[i].hp >= 0
              /\ enemies[i].alive <=> enemies[i].hp > 0

\* the sword has brought an enemy to 0 hp, and the guardian has then brought the
\* player to 0 hp: the player fainted and woke up with full hp
HealthInvariantWitness ==
    /\ prog = "main" /\ pc = "portals"
    /\ message = MsgFainted /\ player.hp = PlayerMaxHp
    /\ player.x = SpawnTile * TILE /\ player.y = SpawnTile * TILE
    /\ \E i \in 1..Len(enemies) : ~enemies[i].alive /\ enemies[i].hp = 0

\* C17: ordinary enemies are removed on death, bosses stay: after the cleanup at
\* the end of every tick Game.enemies holds no dead non-boss enemy, and every
\* boss is in Game.enemies, alive or dead, in every state.
CleanupKeepsBosses ==
    prog = "main" =>
        /\ pc = "events" =>
              \A i \in 1..Len(enemies) :
                  (enemies[i].inlist /\ ~enemies[i].alive) => enemies[i].is_boss
        /\ \A i \in 1..Len(enemies) : enemies[i].is_boss => enemies[i].inlist

\* a tick has ended in which an ordinary enemy died: it is gone from the list,
\* and the guardian is still in it
CleanupKeepsBossesWitness ==
    /\ prog = "main" /\ pc = "events" /\ tick >= 1
    /\ \E i \in 1..Len(enemies) :
          ~enemies[i].is_boss /\ ~enemies[i].alive /\ ~enemies[i].inlist
    /\ \E j \in 1..Len(enemies) : enemies[j].is_boss /\ enemies[j].inlist

\* the player stands on the portal of biome b, whose guardian is defeated
OnOpenPortal(b) ==
    colliderect(EntRect(player), Portal(b)) /\ bosses_defeated[b]

\* the biome that follows b in BIOME_ORDER
NextBiome(b) ==
    BIOME_ORDER[(CHOOSE i \in 1..Len(BIOME_ORDER) : BIOME_ORDER[i] = b) + 1]

\* C18: unlocked transition: handle_portals with the player on the portal of a
\* biome b other than DARK whose boss is defeated puts the player's top-left
\* corner on that of the portal of the biome that follows b in BIOME_ORDER and
\* the message names that biome; in no other situation does it move the player.
UnlockedTransition ==
    [][pc = "portals" =>
          IF \E b \in Biomes \ {DARK} : OnOpenPortal(b)
          THEN \A b \in Biomes \ {DARK} :
                  OnOpenPortal(b) =>
                      /\ player' = [player EXCEPT !.x = Portal(NextBiome(b)).x,
                                                  !.y = Portal(NextBiome(b)).y]
                      /\ message' = "Entered: " \o BIOME_NAMES[NextBiome(b)]
          ELSE player' = player ]_vars

\* the forest guardian is defeated and handle_portals has just carried the
\* player from the forest portal to the desert portal
UnlockedTransitionWitness ==
    /\ prog = "main" /\ pc = "cleanup" /\ bosses_defeated[FOREST]
    /\ player.x = Portal(DESERT).x /\ player.y = Portal(DESERT).y
    /\ message = "Entered: " \o BIOME_NAMES[DESERT]

\* C19: boss flags track boss deaths: at the end of every tick bosses_defeated[b]
\* is True if and only if the boss of biome b is dead (so the flag is set in the
\* tick in which the boss's hp reaches 0), and a flag never returns to False.
BossFlagsTrackDeaths ==
    [][ /\ \A b \in Biomes : bosses_defeated[b] => bosses_defeated'[b]
        /\ (prog = "main" /\ pc' = "events") =>
              \A b \in Biomes :
                  bosses_defeated'[b] <=>
                      \E i \in 1..Len(enemies') :
                          /\ enemies'[i].is_boss /\ enemies'[i].biom = b
                          /\ ~enemies'[i].alive ]_vars

\* a tick has ended in which the forest guardian died: its flag is set, the
\* other flags are not
BossFlagsTrackDeathsWitness ==
    /\ prog = "main" /\ pc = "events" /\ tick >= 1
    /\ bosses_defeated[FOREST] /\ ~bosses_defeated[DESERT]
    /\ \E i \in 1..Len(enemies) :
          /\ enemies[i].is_boss /\ enemies[i].biom = FOREST
          /\ ~enemies[i].alive /\ enemies[i].hp = 0

\* C20: diagonal speed invariance in player.py: for a diagonal input the
\* displacement (dx, dy) that Player.update passes to move_and_collide has the
\* magnitude of an axial displacement: dx*dx + dy*dy = PLAYER_SPEED*PLAYER_SPEED.
DiagonalSpeedInvariance ==
    [][ (prog = "tile" /\ input'.op = "update" /\ Diagonal(input'.keys)) =>
           LET d == TileDisplacement(input'.keys)
           IN  (d.dx * d.dx) + (d.dy * d.dy) = PLAYER_SPEED * PLAYER_SPEED ]_vars

\* C21: map structure: the grid generate_map returns has every cell in
\* {0,1,2,3}, every border cell equal to 1, every cell of the 7x7 square centred
\* on (CHUNK_W//2, CHUNK_H//2) equal to 0, the four portal cells equal to 3 and
\* the cell next to each portal towards the centre equal to 0.
MapStructure ==
    (prog = "gen" /\ input.op = "generate") =>
        LET cx == ChunkW \div 2
            cy == ChunkH \div 2
        IN  /\ Len(maps) = ChunkH
            /\ \A ty \in 0..(ChunkH - 1) :
                  /\ Len(maps[ty + 1]) = ChunkW
                  /\ \A tx \in 0..(ChunkW - 1) :
                        /\ maps[ty + 1][tx + 1] \in {0, 1, 2, 3}
                        /\ (ty = 0 \/ ty = ChunkH - 1 \/ tx = 0 \/ tx = ChunkW - 1)
                              => maps[ty + 1][tx + 1] = 1
                        /\ (Abs(tx - cx) <= 3 /\ Abs(ty - cy) <= 3)
                              => maps[ty + 1][tx + 1] = 0
            /\ maps[2][cx + 1] = 3 /\ maps[ChunkH - 1][cx + 1] = 3
            /\ maps[cy + 1][2] = 3 /\ maps[cy + 1][ChunkW - 1] = 3
            /\ maps[3][cx + 1] = 0 /\ maps[ChunkH - 2][cx + 1] = 0
            /\ maps[cy + 1][3] = 0 /\ maps[cy + 1][ChunkW - 2] = 0

\* a water map whose smoothing left water around the spawn area and beside
\* each cell the portals need walkable
MapStructureWitness ==
    /\ prog = "gen" /\ input.op = "generate" /\ input.biome = "water"
    /\ maps[(ChunkH \div 2) + 1][(ChunkW \div 2) + 5] = 2
    /\ maps[3][(ChunkW \div 2) + 2] = 2
    /\ maps[(ChunkH \div 2) + 2][3] = 2
    /\ \E ty \in 1..(ChunkH - 2), tx \in 1..(ChunkW - 2) : maps[ty + 1][tx + 1] = 0

\* whether the rectangle overlaps a blocked tile of the map or of its surround
OverlapsBlocked(r, grid) ==
    \E tx \in -1..CHUNK_W(grid), ty \in -1..CHUNK_H(grid) :
        /\ tile_blocked(grid, tx, ty)
        /\ colliderect(r, Rect(tx * GRID_TILE, ty * GRID_TILE, GRID_TILE, GRID_TILE))

\* C22: enemy bounce keeps enemies out of walls: an Enemy that overlaps no
\* blocked tile before Enemy.update overlaps none after it; a move on one axis
\* that ends in a blocked tile is undone on that axis and the direction
\* component of that axis is negated, and the move on the other axis is still
\* applied.
EnemyBounce ==
    [][ (prog = "enemy" /\ ~OverlapsBlocked(TileEnemyRect(enemies[1]), maps)) =>
           LET e  == enemies[1]
               e2 == enemies'[1]
               d  == input'.dir
               dx == Trunc(d.x * TileEnemySpeed, 1000)
               dy == Trunc(d.y * TileEnemySpeed, 1000)
               xBlocked == OverlapsBlocked(Rect(e.x + dx, e.y, TileEnemySize, TileEnemySize), maps)
               yBlocked == OverlapsBlocked(Rect(e2.x, e.y + dy, TileEnemySize, TileEnemySize), maps)
           IN  /\ ~OverlapsBlocked(TileEnemyRect(e2), maps)
               /\ e2.x = IF xBlocked THEN e.x ELSE e.x + dx
               /\ e2.dir.x = IF xBlocked THEN -d.x ELSE d.x
               /\ e2.y = IF yBlocked THEN e.y ELSE e.y + dy
               /\ e2.dir.y = IF yBlocked THEN -d.y ELSE d.y ]_vars

\* an enemy moving diagonally has bounced on x and moved on y
EnemyBounceWitness ==
    /\ prog = "enemy" /\ input.op = "update"
    /\ input.dir.x # 0 /\ input.dir.y # 0
    /\ enemies[1].dir.x = -input.dir.x
    /\ enemies[1].dir.y = input.dir.y
    /\ enemies[1].change_timer >= 25

\* C23: sword timers of player.py: 0 <= sword_active <= 10 and
\* 0 <= sword_cd <= 18 in every state, each update lowers a positive timer by
\* exactly 1, and sword_active > 0 implies sword_cd = sword_active + 8, so that
\* swing_sword starts no new swing while a hitbox is active.
SwordTimers ==
    [][ prog = "tile" =>
          /\ \A p \in {tplayer, tplayer'} :
                /\ 0 <= p.sword_active /\ p.sword_active <= 10
                /\ 0 <= p.sword_cd /\ p.sword_cd <= 18
                /\ p.sword_active > 0 => p.sword_cd = p.sword_active + 8
          /\ input'.op = "update" =>
                /\ tplayer'.sword_cd =
                      IF tplayer.sword_cd > 0 THEN tplayer.sword_cd - 1 ELSE 0
                /\ tplayer'.sword_active =
                      IF tplayer.sword_active > 0 THEN tplayer.sword_active - 1 ELSE 0
          /\ (input'.op = "swing" /\ tplayer.sword_active > 0) =>
                tplayer' = tplayer ]_vars

\* swing_sword was called while the hitbox of a swing was in its last frame
SwordTimersWitness ==
    /\ prog = "tile" /\ input.op = "swing"
    /\ tplayer.sword_active = 1 /\ tplayer.sword_cd = 9

\* the player stands where the teleport to biome b put them, under its message
JustEntered(b) ==
    /\ message = MsgEntered(b)
    /\ player.x = Portal(b).x /\ player.y = Portal(b).y

\* C24: a teleport fires once per portal entry: in the tick that follows a
\* teleport, with no player input, handle_portals neither moves the player
\* again nor replaces the "Entered: <biome>" message.
TeleportFiresOnce ==
    [][ ( /\ prog = "main" /\ pc = "portals"
          /\ input.keys = Keys(FALSE, FALSE, FALSE, FALSE) /\ ~input.space
          /\ \E b \in Biomes : JustEntered(b) )
        => (player'.x = player.x /\ player'.y = player.y /\ message' = message) ]_vars

\* C25: spawn points are walkable: at spawn no boss rectangle and no portal
\* rectangle overlaps a water-strip wall.
SpawnPointsWalkable ==
    (prog = "main" /\ tick = 0 /\ pc = "events") =>
        \A tx \in 30..59, ty \in 32..59 :
            IsWaterWall(tx, ty) =>
               /\ \A i \in 1..Len(enemies) :
                     enemies[i].is_boss =>
                        ~colliderect(EntRect(enemies[i]), WaterWall(tx, ty))
               /\ \A b \in Biomes : ~colliderect(Portal(b), WaterWall(tx, ty))

\* enemy i is in the list, dead from a hit, and its rectangle overlaps the player's
SlainOnPlayer(i) ==
    /\ enemies[i].inlist /\ ~enemies[i].alive /\ enemies[i].hp <= 0
    /\ enemies[i].hit_flash_t = HitFlashMs
    /\ colliderect(EntRect(enemies[i]), EntRect(player))

\* no living enemy touches the player
NoLivingTouch ==
    \A i \in 1..Len(enemies) :
        (enemies[i].inlist /\ enemies[i].alive)
            => ~colliderect(EntRect(enemies[i]), EntRect(player))

\* C26: order of the phases of a tick: an enemy whose hp reached 0 in
\* handle_combat does not damage or knock back the player in
\* handle_enemy_collisions of the same tick, even when its rectangle overlaps
\* the player's and the player is not invulnerable.
SlainEnemyHarmless ==
    [][ ( /\ prog = "main" /\ pc = "collide"
          /\ player.invuln_t <= 0
          /\ NoLivingTouch
          /\ \E i \in 1..Len(enemies) : SlainOnPlayer(i) )
        => (player' = player /\ message' = message /\ message_t' = message_t) ]_vars

\* handle_enemy_collisions has run over a regular enemy killed in this tick that
\* overlaps the player, who is unhurt and not invulnerable
SlainEnemyHarmlessWitness ==
    /\ prog = "main" /\ pc = "portals"
    /\ player.invuln_t <= 0 /\ player.hp = PlayerMaxHp
    /\ NoLivingTouch
    /\ \E i \in 1..Len(enemies) : SlainOnPlayer(i) /\ ~enemies[i].is_boss

====
